---- MODULE Spec2Model ----
(***************************************************************************)
(* Frame loop and swapchain lifecycle of mcanim_vk (src/src/main.cpp).     *)
(*                                                                         *)
(* The control thread runs Application::loop: glfwPollEvents, drawFrame,  *)
(* and inside drawFrame possibly recreateSwapChain.  The GPU executes the  *)
(* submitted command buffers asynchronously and signals the fence of each  *)
(* submission when it completes.  The window system changes the           *)
(* framebuffer size and delivers the resize callback inside the event     *)
(* pumps (glfwPollEvents, glfwWaitEvents).                                *)
(***************************************************************************)
EXTENDS Integers, Sequences, FiniteSets, TLC

\* ------------------------------------------------------------ constants

\* main.cpp:17, main.cpp:18, main.cpp:20
WIDTH == 800
HEIGHT == 600
MAX_FRAMES_IN_FLIGHT == 2

\* std::numeric_limits<uint32_t>::max(), the "undefined" extent (main.cpp:251).
\* The value is 4294967295; TLC's integers end at 2147483647, which stands for
\* it here: like the original it is the largest value an extent can take and
\* lies above every extent bound a surface reports.
UINT32_MAX == 2147483647

\* ------------------------------------------------------------ bounds

\* framebuffer sizes the window system may report besides the initial size
\* and the sizes with a zero side: d x d for d in 1 .. MaxDim
MaxDim == 1
\* the environment stops disturbing the swapchain (resize recreations, out-of-date
\* and suboptimal results) once recreateSwapChain has been called this often
MaxRecreations == 2
\* the longest list of physical devices the instance enumerates
MaxDevices == 3
\* the longest list of surface formats, and of present modes, a device reports
MaxListLen == 2

\* ------------------------------------------------------------ environment

Slots == 0 .. (MAX_FRAMES_IN_FLIGHT - 1)

\* glfwGetFramebufferSize: minimized (0 x 0), one side zero, the initial
\* size, and other nonzero sizes
FbSizes ==
    {<<0, 0>>, <<0, HEIGHT>>, <<WIDTH, 0>>, <<WIDTH, HEIGHT>>}
        \cup {<<d, d>> : d \in 1 .. MaxDim}

\* vk::Result values the calls of drawFrame can return
AcquireResults == {"eSuccess", "eSuboptimalKHR", "eErrorOutOfDateKHR", "eErrorDeviceLost"}
PresentResults == {"eSuccess", "eSuboptimalKHR", "eErrorOutOfDateKHR", "eErrorDeviceLost"}
Recoverable == {"eSuboptimalKHR", "eErrorOutOfDateKHR"}

\* surface formats (format, colorSpace) and present modes a surface may report
PreferredFormat == <<"eB8G8R8A8Srgb", "eSrgbNonlinear">>

\* The surfaces considered: what the driver reports for the surface apart
\* from its size.  A surface either has a concrete current extent (the size of
\* the window) or reports the undefined extent and leaves the choice to the
\* application within [minImageExtent, maxImageExtent].  The presentation
\* engine of these surfaces executes the semaphore wait of a present as soon
\* as the present is queued and the semaphore is signaled.
Surfaces ==
    { [definedExtent |-> d, maxImageCount |-> c.maxImageCount,
       formats |-> c.formats, presentModes |-> c.presentModes,
       latePresents |-> FALSE] :
        d \in BOOLEAN,
        c \in { [maxImageCount |-> 0,
                 formats |-> << <<"eR8G8B8A8Unorm", "eSrgbNonlinear">>, PreferredFormat >>,
                 presentModes |-> <<"eFifo", "eMailbox">>],
                [maxImageCount |-> 2,
                 formats |-> << <<"eR8G8B8A8Unorm", "eSrgbNonlinear">>,
                                <<"eB8G8R8A8Srgb", "eExtendedSrgbLinearEXT">> >>,
                 presentModes |-> <<"eFifo">>] } }

\* A surface whose presentation engine may execute the semaphore wait of a
\* queued present at any later time: three images, mailbox, undefined extent.
LatePresentSurfaces ==
    { [definedExtent |-> FALSE, maxImageCount |-> 0,
       formats |-> << <<"eR8G8B8A8Unorm", "eSrgbNonlinear">>, PreferredFormat >>,
       presentModes |-> <<"eFifo", "eMailbox">>,
       latePresents |-> TRUE] }

\* ------------------------------------------------------------ pure functions

\* std::clamp(v, lo, hi)
clamp(v, lo, hi) == IF v < lo THEN lo ELSE IF hi < v THEN hi ELSE v

RECURSIVE FirstMatch(_, _, _)
\* index of the first element of s at or after i that equals x, 0 if none
FirstMatch(s, x, i) ==
    IF i > Len(s) THEN 0
    ELSE IF s[i] = x THEN i
    ELSE FirstMatch(s, x, i + 1)

\* mutant: the color space is not compared
chooseSwapSurfaceFormat_FormatOnly(availableFormats) ==
    LET matches == {i \in 1 .. Len(availableFormats) :
                       availableFormats[i][1] = PreferredFormat[1]}
    IN IF matches # {}
       THEN availableFormats[CHOOSE i \in matches : \A j \in matches : i <= j]
       ELSE availableFormats[1]

\* main.cpp:225-235
chooseSwapSurfaceFormat(availableFormats) ==
    LET k == FirstMatch(availableFormats, PreferredFormat, 1)
    IN IF k # 0 THEN availableFormats[k] ELSE availableFormats[1]

\* mutant: the first mode reported is taken
chooseSwapPresentMode_First(availablePresentModes) ==
    IF Len(availablePresentModes) > 0 THEN availablePresentModes[1] ELSE "eFifo"

\* main.cpp:237-246
chooseSwapPresentMode(availablePresentModes) ==
    LET k == FirstMatch(availablePresentModes, "eMailbox", 1)
    IN IF k # 0 THEN availablePresentModes[k] ELSE "eFifo"

\* mutant: the framebuffer size is used without clamping
chooseSwapExtent_NoClamp(capabilities, size) ==
    IF capabilities.currentExtent[1] # UINT32_MAX
    THEN capabilities.currentExtent
    ELSE size

\* main.cpp:248-269; size is what glfwGetFramebufferSize returns at 255
chooseSwapExtent(capabilities, size) ==
    IF capabilities.currentExtent[1] # UINT32_MAX
    THEN capabilities.currentExtent
    ELSE << clamp(size[1], capabilities.minImageExtent[1], capabilities.maxImageExtent[1]),
            clamp(size[2], capabilities.minImageExtent[2], capabilities.maxImageExtent[2]) >>

\* mutant: a swapchain of a single image is asked for
chooseImageCount_Single(capabilities) == 1

\* imageCount of createSwapChain
chooseImageCount(capabilities) ==
    LET imageCount == capabilities.minImageCount + 1
    IN IF capabilities.maxImageCount > 0 /\ imageCount > capabilities.maxImageCount
       THEN capabilities.maxImageCount
       ELSE imageCount

\* querySwapChainSupport, main.cpp:196-204: the capabilities, formats and
\* present modes of surface sf while the window's framebuffer has size `size`
querySwapChainSupport(sf, size) ==
    [capabilities |->
        [currentExtent  |-> IF sf.definedExtent THEN size ELSE <<UINT32_MAX, UINT32_MAX>>,
         minImageExtent |-> IF sf.definedExtent THEN size ELSE <<1, 1>>,
         maxImageExtent |-> IF sf.definedExtent THEN size ELSE <<4096, 4096>>,
         minImageCount  |-> 2,
         maxImageCount  |-> sf.maxImageCount],
     formats |-> sf.formats,
     presentModes |-> sf.presentModes]

\* the swapchain object createSwapChain asks the device for
SwapchainCreateInfo(support, size) ==
    LET surfaceFormat == chooseSwapSurfaceFormat(support.formats)
    IN [imageCount  |-> chooseImageCount(support.capabilities),
        format      |-> surfaceFormat[1],
        colorSpace  |-> surfaceFormat[2],
        extent      |-> chooseSwapExtent(support.capabilities, size),
        presentMode |-> chooseSwapPresentMode(support.presentModes)]

\* ------------------------------------------------------------ device selection

\* main.cpp:25-26
deviceExtensions == {"VK_KHR_swapchain"}

\* std::optional without a value
nullopt == 0 - 1

\* QueueFamilyIndices::isComplete, main.cpp:55-57
isComplete(indices) ==
    indices.graphicsFamily # nullopt /\ indices.presentFamily # nullopt

RECURSIVE findQueueFamiliesFrom(_, _, _)
\* main.cpp:342-353, the loop from queue family i (counted from 0) on with
\* the indices found so far
findQueueFamiliesFrom(queueFamilies, i, indices) ==
    IF i >= Len(queueFamilies) THEN indices
    ELSE LET queueFamily == queueFamilies[i + 1]
             found == [graphicsFamily |-> IF queueFamily.graphics THEN i
                                          ELSE indices.graphicsFamily,
                       presentFamily  |-> IF queueFamily.present THEN i
                                          ELSE indices.presentFamily]
         IN IF isComplete(found) THEN found
            ELSE findQueueFamiliesFrom(queueFamilies, i + 1, found)

\* main.cpp:338-356
findQueueFamilies(device) ==
    findQueueFamiliesFrom(device.queueFamilies, 0,
                          [graphicsFamily |-> nullopt, presentFamily |-> nullopt])

\* main.cpp:206-223
isDeviceSuitable(device) ==
    LET queueFamilies == findQueueFamilies(device)
        missingExtensions == deviceExtensions \ device.extensions
    IN IF missingExtensions # {} THEN FALSE
       ELSE /\ isComplete(queueFamilies)
            /\ Len(device.formats) # 0
            /\ Len(device.presentModes) # 0

\* a physical device as the selection sees it: the queue families with their
\* graphics flag and their support of the surface, the device extensions, and
\* the formats and present modes it reports for the surface
Device(queueFamilies, extensions, formats, presentModes) ==
    [queueFamilies |-> queueFamilies, extensions |-> extensions,
     formats |-> formats, presentModes |-> presentModes]

QueueFamily(graphics, present) == [graphics |-> graphics, present |-> present]

\* one queue family that does graphics and presents, the swapchain extension,
\* a format and a present mode
SuitableDevice ==
    Device(<< QueueFamily(TRUE, TRUE) >>, {"VK_KHR_swapchain"},
           << PreferredFormat >>, << "eFifo" >>)

\* The devices considered: suitable ones (one family for both, or a compute
\* family, a graphics family and a present family), and devices that lack
\* one of the four requirements.
DeviceKinds ==
    { SuitableDevice,
      Device(<< QueueFamily(FALSE, FALSE), QueueFamily(TRUE, FALSE), QueueFamily(FALSE, TRUE) >>,
             {"VK_KHR_swapchain", "VK_KHR_maintenance1"},
             << PreferredFormat >>, << "eFifo", "eMailbox" >>),
      Device(<< QueueFamily(FALSE, TRUE) >>, {"VK_KHR_swapchain"},
             << PreferredFormat >>, << "eFifo" >>),
      Device(<< QueueFamily(TRUE, FALSE), QueueFamily(FALSE, FALSE) >>, {"VK_KHR_swapchain"},
             << PreferredFormat >>, << "eFifo" >>),
      Device(<< QueueFamily(TRUE, TRUE) >>, {"VK_KHR_maintenance1"},
             << PreferredFormat >>, << "eFifo" >>),
      Device(<< QueueFamily(TRUE, TRUE) >>, {"VK_KHR_swapchain"},
             << >>, << "eFifo" >>),
      Device(<< QueueFamily(TRUE, TRUE) >>, {"VK_KHR_swapchain"},
             << PreferredFormat >>, << >>) }

\* instance.enumeratePhysicalDevices()
DeviceLists == UNION { [1 .. n -> DeviceKinds] : n \in 0 .. MaxDevices }

\* ------------------------------------------------------------ swapchain support

\* surface formats a device may report: the preferred one, one with its
\* format and another color space, one with its color space and another format
FormatSet ==
    { PreferredFormat,
      <<"eB8G8R8A8Srgb", "eExtendedSrgbLinearEXT">>,
      <<"eR8G8B8A8Unorm", "eSrgbNonlinear">> }

PresentModeSet == {"eFifo", "eMailbox", "eImmediate"}

\* the sequences over S of length lo to hi
Lists(S, lo, hi) == UNION { [1 .. n -> S] : n \in lo .. hi }

\* vk::SurfaceCapabilitiesKHR: the current extent is the undefined extent or
\* a concrete one; minImageExtent <= maxImageExtent
CapabilitySet ==
    { [currentExtent  |-> c, minImageExtent |-> lo, maxImageExtent |-> hi,
       minImageCount  |-> 2, maxImageCount |-> n] :
        c \in {<<UINT32_MAX, UINT32_MAX>>, <<1024, 768>>},
        lo \in {<<1, 1>>, <<64, 64>>},
        hi \in {<<64, 64>>, <<4096, 4096>>},
        n \in {0, 2, 4} }

\* glfwGetFramebufferSize at main.cpp:255
WindowSizes == {<<0, 0>>, <<1, 1>>, <<1024, 768>>, <<5000, 100>>}

\* SwapChainSupportDetails of a suitable device
SupportDetails ==
    { [capabilities |-> c, formats |-> f, presentModes |-> m] :
        c \in CapabilitySet,
        f \in Lists(FormatSet, 1, MaxListLen),
        m \in Lists(PresentModeSet, 0, MaxListLen) }

\* ------------------------------------------------------------ state

VARIABLES
    surface,                \* the surface the driver presents to
    pc,                     \* position of the control thread
    ret,                    \* where recreateSwapChain returns to
    fbSize,                 \* window: glfwGetFramebufferSize
    shouldClose,            \* window: glfwWindowShouldClose
    framebufferResized,
    current_frame,
    inFlightFences,         \* slot -> signaled
    commandBuffers,         \* slot -> what the command buffer holds
    pending,                \* submissions executing on the GPU, in queue order
    swapChain,              \* handle
    swapChainImages,        \* sequence of image handles
    swapChainFormat,
    swapChainExtent,
    swapChainImageViews,    \* sequence of image view handles
    swapChainFrameBuffers,  \* sequence of framebuffer handles
    liveSwapchains,         \* device: live swapchain handle -> its create info
    liveImageViews,         \* device: live image view handle -> [image, format]
    liveFramebuffers,       \* device: live framebuffer handle -> [view, extent]
    nextHandle,             \* next fresh object handle
    imageIndex,             \* local of drawFrame
    recreations,            \* calls of recreateSwapChain so far
    iter,                   \* history of the current drawFrame iteration
    imageAvailableSemaphores,   \* slot -> a signal is pending or unconsumed
    renderFinishedSemaphores,   \* slot -> signaled
    presentWaits,           \* slots whose renderFinished semaphore a queued
                            \* present has still to wait on
    liveObjects,            \* the other objects the constructor made that exist
    built,                  \* history: the framebuffer size the swapchain was
                            \* built for, whether the build before it was
                            \* a recreation for the same size, whether
                            \* its images have been acquired in index order,
                            \* and whether a resize has been notified since
    enumerated,             \* instance.enumeratePhysicalDevices()
    physicalDevice,         \* 0 (null) or the position of the device picked
    deviceIt,               \* pickPhysicalDevice: position of the loop
    swapChainSupport,       \* createSwapChain: local
    createInfo              \* createSwapChain: local

vars == << surface, pc, ret, fbSize, shouldClose, framebufferResized, current_frame,
           inFlightFences, commandBuffers, pending, swapChain, swapChainImages,
           swapChainFormat, swapChainExtent, swapChainImageViews,
           swapChainFrameBuffers, liveSwapchains, liveImageViews,
           liveFramebuffers, nextHandle, imageIndex, recreations, iter,
           imageAvailableSemaphores, renderFinishedSemaphores, presentWaits,
           liveObjects, built, enumerated, physicalDevice, deviceIt,
           swapChainSupport, createInfo >>

windowVars == << surface, fbSize, shouldClose >>
syncVars == << inFlightFences, commandBuffers, pending >>
semVars == << imageAvailableSemaphores, renderFinishedSemaphores, presentWaits >>
\* what the constructor sets up and the frame loop never touches
setupVars == << liveObjects, enumerated, physicalDevice, deviceIt, swapChainSupport,
                createInfo >>
\* the fields and history of the frame loop
frameVars == << surface, ret, shouldClose, framebufferResized, current_frame,
                inFlightFences, commandBuffers, pending, swapChain, swapChainImages,
                swapChainFormat, swapChainExtent, swapChainImageViews,
                swapChainFrameBuffers, liveSwapchains, liveImageViews,
                liveFramebuffers, nextHandle, imageIndex, recreations, iter,
                imageAvailableSemaphores, renderFinishedSemaphores, presentWaits,
                built >>
chainVars == << swapChain, swapChainImages, swapChainFormat, swapChainExtent,
                swapChainImageViews, swapChainFrameBuffers, liveSwapchains,
                liveImageViews, liveFramebuffers, nextHandle >>

\* "no index / no handle yet" in the history record
NoIndex == 0 - 1
\* the null handle of swapchains, and of image views and framebuffers
NoSwapchain == 0
NullPhysicalDevice == 0
NullHandle == <<0, 0>>
\* locals of createSwapChain outside createSwapChain
NoSupport == [capabilities |-> << >>, formats |-> << >>, presentModes |-> << >>]
NoCreateInfo == << >>

\* the objects besides the swapchain, its image views and its framebuffers
\* that the constructor creates (main.cpp:94-106), in the order of creation
CreationOrder ==
    << "window", "instance", "surface", "device", "renderPass", "pipelineLayout",
       "graphicsPipeline", "commandPool", "commandBuffers",
       "imageAvailableSemaphores", "renderFinishedSemaphores", "inFlightFences" >>
ConstructedObjects == {CreationOrder[i] : i \in 1 .. Len(CreationOrder)}

\* the history record at the start of an iteration
NewIter(cf) ==
    [cf0 |-> cf, acq |-> "none", acqIdx |-> NoIndex, acqChain |-> NoSwapchain,
     fenceReset |-> FALSE, recIdx |-> NoIndex, recFb |-> NullHandle,
     submitted |-> FALSE, pres |-> "none", presIdx |-> NoIndex,
     presChain |-> NoSwapchain, resizedAtPresent |-> FALSE,
     recreateCalls |-> 0, builtAfterPresent |-> FALSE, returned |-> FALSE]

\* ------------------------------------------------------------ object creation

\* device.getSwapchainImagesKHR: the images of swapchain sc
ImagesOf(sc, n) == [i \in 1 .. n |-> <<sc, i - 1>>]

\* the handles of the n objects made by creation call number g
NewHandles(g, n) == [i \in 1 .. n |-> <<g, i>>]

Range(s) == {s[i] : i \in 1 .. Len(s)}

\* a function extended with new entries
Extend(f, g) == [x \in (DOMAIN f) \cup (DOMAIN g) |-> IF x \in DOMAIN g THEN g[x] ELSE f[x]]
Without(f, S) == [x \in (DOMAIN f) \ S |-> f[x]]

\* device.createImageView for every image, in order (createImageViews)
ImageViewObjects(images, format, g) ==
    [h \in Range(NewHandles(g, Len(images))) |->
        [image |-> images[h[2]], format |-> format]]

\* device.createFramebuffer for every image view, in order (createFramebuffers)
FramebufferObjects(views, extent, g) ==
    [h \in Range(NewHandles(g, Len(views))) |->
        [view |-> views[h[2]], extent |-> extent]]

\* ------------------------------------------------------------ construction

\* The state after Application::Application(): the window has its initial
\* size, the swapchain, its views and framebuffers exist, the fences are
\* created signaled, nothing has been submitted.
InitWith(sf) ==
        LET info == SwapchainCreateInfo(querySwapChainSupport(sf, <<WIDTH, HEIGHT>>),
                                        <<WIDTH, HEIGHT>>)
            images == ImagesOf(1, info.imageCount)
            views == NewHandles(2, info.imageCount)
            fbs == NewHandles(3, info.imageCount)
        IN /\ surface = sf
           /\ pc = "loop"
           /\ ret = "none"
           /\ fbSize = <<WIDTH, HEIGHT>>
           /\ shouldClose = FALSE
           /\ framebufferResized = FALSE
           /\ current_frame = 0
           /\ inFlightFences = [s \in Slots |-> TRUE]
           /\ commandBuffers = [s \in Slots |-> [fb |-> NullHandle]]
           /\ pending = << >>
           /\ swapChain = 1
           /\ swapChainImages = images
           /\ swapChainFormat = info.format
           /\ swapChainExtent = info.extent
           /\ swapChainImageViews = views
           /\ swapChainFrameBuffers = fbs
           /\ liveSwapchains = (1 :> info)
           /\ liveImageViews = ImageViewObjects(images, info.format, 2)
           /\ liveFramebuffers = FramebufferObjects(views, info.extent, 3)
           /\ nextHandle = 4
           /\ imageIndex = 0
           /\ recreations = 0
           /\ iter = NewIter(0)
           /\ imageAvailableSemaphores = [s \in Slots |-> FALSE]
           /\ renderFinishedSemaphores = [s \in Slots |-> FALSE]
           /\ presentWaits = {}
           /\ liveObjects = ConstructedObjects
           /\ built = [size |-> <<WIDTH, HEIGHT>>, repeated |-> FALSE,
                       inOrder |-> TRUE, nextInOrder |-> 0,
                       resizedSince |-> FALSE]
           /\ enumerated = << SuitableDevice >>
           /\ physicalDevice = Len(enumerated)
           /\ deviceIt = Len(enumerated) + 1
           /\ swapChainSupport = NoSupport
           /\ createInfo = NoCreateInfo

Init == \E sf \in Surfaces : InitWith(sf)

\* ------------------------------------------------------------ window system

\* One run of the event pump (glfwPollEvents, glfwWaitEvents): the events
\* delivered may include framebuffer size changes, each of which calls
\* framebufferResizeCallback, and a close request.
framebufferResizeCallback ==
    /\ framebufferResized' = TRUE
    /\ built' = [built EXCEPT !.resizedSince = TRUE]

PumpEvents ==
    /\ \/ /\ recreations < MaxRecreations
          /\ \E size \in FbSizes : fbSize' = size
          /\ framebufferResizeCallback
       \/ UNCHANGED << fbSize, framebufferResized, built >>
    /\ \E close \in BOOLEAN : shouldClose' = (shouldClose \/ close)
    /\ surface' = surface

\* ------------------------------------------------------------ GPU

\* the presentation engine executes a semaphore wait in the step in which the
\* present is queued and the semaphore signaled
PresentWaitsAtOnce(ready) == ready /\ ~surface.latePresents

\* The GPU finishes one of the submitted command buffers: the submission has
\* waited on (and so unsignaled) its imageAvailable semaphore (main.cpp:607),
\* it signals its renderFinished semaphore (609) and the fence that was
\* passed with it (610).  Nothing is observed of the device once the process
\* has ended.
GpuComplete ==
    \E i \in 1 .. Len(pending) :
        /\ pc \notin {"terminated", "exited"}
        /\ pending' = [j \in 1 .. (Len(pending) - 1) |->
                          IF j < i THEN pending[j] ELSE pending[j + 1]]
        /\ inFlightFences' = [inFlightFences EXCEPT ![pending[i].slot] = TRUE]
        /\ imageAvailableSemaphores' =
              [imageAvailableSemaphores EXCEPT ![pending[i].slot] = FALSE]
        /\ IF PresentWaitsAtOnce(pending[i].slot \in presentWaits)
           THEN /\ presentWaits' = presentWaits \ {pending[i].slot}
                /\ UNCHANGED renderFinishedSemaphores
           ELSE /\ renderFinishedSemaphores' =
                      [renderFinishedSemaphores EXCEPT ![pending[i].slot] = TRUE]
                /\ UNCHANGED presentWaits
        /\ UNCHANGED << setupVars, built, pc, ret, windowVars,
                        framebufferResized, current_frame,
                        commandBuffers, chainVars, imageIndex, recreations, iter >>

\* The present queue executes the semaphore wait of a queued present
\* (main.cpp:618-620) once the semaphore is signaled; the wait unsignals it.
\* No fence and no other call of drawFrame reports when this has happened.
PresentEngine ==
    \E s \in presentWaits :
        /\ pc \notin {"terminated", "exited"}
        /\ surface.latePresents
        /\ renderFinishedSemaphores[s]
        /\ presentWaits' = presentWaits \ {s}
        /\ renderFinishedSemaphores' = [renderFinishedSemaphores EXCEPT ![s] = FALSE]
        /\ UNCHANGED << setupVars, imageAvailableSemaphores, built, pc, ret, windowVars,
                        framebufferResized, current_frame, syncVars, chainVars,
                        imageIndex, recreations, iter >>

\* mutant: waitIdle returns while work is still executing
DeviceIdle_NoDrain == TRUE

\* device.waitIdle() returns once no queue has an operation left: nothing is
\* executing and no queued present has its semaphore wait outstanding
DeviceIdle == pending = << >> /\ presentWaits = {}

\* mutant: the fence wait returns although the fence is not signaled
FenceWaitReturns_NoWait(s) == TRUE

\* mutant: the fence of slot 0 is waited on whatever the current slot is
FenceWaitReturns_AlwaysSlot0(s) == inFlightFences[0]

\* device.waitForFences({fence of slot s}, true, UINT64_MAX) returns eSuccess
\* once the fence is signaled
FenceWaitReturns(s) == inFlightFences[s]

\* ------------------------------------------------------------ Application::loop

loop ==
    /\ pc = "loop"
    /\ pc' = IF shouldClose THEN "loop_waitIdle" ELSE "glfwPollEvents"
    /\ iter' = NewIter(current_frame)
    /\ UNCHANGED << setupVars, semVars, built, ret, windowVars, framebufferResized,
                    current_frame, syncVars,
                    chainVars, imageIndex, recreations >>

glfwPollEvents ==
    /\ pc = "glfwPollEvents"
    /\ PumpEvents
    /\ pc' = "drawFrame"
    /\ UNCHANGED << setupVars, semVars, ret, current_frame, syncVars, chainVars,
                    imageIndex,
                    recreations, iter >>

loop_waitIdle ==
    /\ pc = "loop_waitIdle"
    /\ DeviceIdle
    /\ pc' = "exited"
    /\ UNCHANGED << setupVars, semVars, built, ret, windowVars, framebufferResized,
                    current_frame, syncVars,
                    chainVars, imageIndex, recreations, iter >>

\* ------------------------------------------------------------ Application::drawFrame

\* a runtime_error thrown out of main: the process terminates
Throw ==
    pc' = "terminated"

\* main.cpp:582-586, the fence wait returned eSuccess
waitForFences ==
    /\ pc = "drawFrame"
    /\ FenceWaitReturns(current_frame)
    /\ pc' = "acquireNextImageKHR"
    /\ UNCHANGED << setupVars, semVars, built, ret, windowVars, framebufferResized,
                    current_frame, syncVars,
                    chainVars, imageIndex, recreations, iter >>

\* main.cpp:582-586, the fence wait returned an error (the device was lost)
waitForFencesFails ==
    /\ pc = "drawFrame"
    /\ Throw
    /\ UNCHANGED << setupVars, semVars, built, ret, windowVars, framebufferResized,
                    current_frame, syncVars,
                    chainVars, imageIndex, recreations, iter >>

\* the image indices acquire may return: any image of the swapchain (the
\* application holds no acquired image at the start of an iteration)
AcquirableIndices == 0 .. (Len(swapChainImages) - 1)

\* main.cpp:568, the loop condition on the locals width and height
SizeIsZero(w, h) == w = 0 \/ h = 0

\* The call of recreateSwapChain and main.cpp:565-568, the first read of the
\* framebuffer size and the first test of the loop condition.  returnTo is
\* the position after the call, it the history of the iteration so far.
recreateSwapChain(returnTo, it) ==
    /\ LET w == fbSize[1]
           h == fbSize[2]
       IN pc' = IF SizeIsZero(w, h) THEN "recreate_waitEvents" ELSE "recreate_waitIdle"
    /\ ret' = returnTo
    /\ recreations' = recreations + 1
    /\ iter' = [it EXCEPT !.recreateCalls = @ + 1]

\* mutant: the fence of the slot is reset before the result of acquire is
\* looked at
acquireOutOfDate_ResetsFence ==
    /\ pc = "acquireNextImageKHR"
    /\ recreations < MaxRecreations
    /\ recreateSwapChain("drawFrame_return",
                         [iter EXCEPT !.acq = "eErrorOutOfDateKHR",
                                      !.acqChain = swapChain])
    /\ inFlightFences' = [inFlightFences EXCEPT ![current_frame] = FALSE]
    /\ UNCHANGED << setupVars, semVars, built, windowVars, framebufferResized,
                    current_frame, commandBuffers, pending,
                    chainVars, imageIndex >>

\* main.cpp:588-592, acquire reported eErrorOutOfDateKHR
acquireOutOfDate ==
    /\ pc = "acquireNextImageKHR"
    /\ recreations < MaxRecreations
    /\ recreateSwapChain("drawFrame_return",
                         [iter EXCEPT !.acq = "eErrorOutOfDateKHR",
                                      !.acqChain = swapChain])
    /\ UNCHANGED << setupVars, semVars, built, windowVars, framebufferResized,
                    current_frame, syncVars,
                    chainVars, imageIndex >>

\* mutant: the aborted iteration advances the frame slot before returning
drawFrame_return_Advances ==
    /\ pc = "drawFrame_return"
    /\ pc' = "loop"
    /\ current_frame' = (current_frame + 1) % MAX_FRAMES_IN_FLIGHT
    /\ iter' = [iter EXCEPT !.returned = TRUE]
    /\ UNCHANGED << setupVars, semVars, built, ret, windowVars, framebufferResized, syncVars,
                    chainVars, imageIndex, recreations >>

\* mutant: the return after the recreation clears the resize notification
drawFrame_return_ClearsResized ==
    /\ pc = "drawFrame_return"
    /\ pc' = "loop"
    /\ framebufferResized' = FALSE
    /\ iter' = [iter EXCEPT !.returned = TRUE]
    /\ UNCHANGED << setupVars, semVars, built, ret, windowVars,
                    current_frame, syncVars,
                    chainVars, imageIndex, recreations >>

\* main.cpp:593, the return after the recreation
drawFrame_return ==
    /\ pc = "drawFrame_return"
    /\ pc' = "loop"
    /\ iter' = [iter EXCEPT !.returned = TRUE]
    /\ UNCHANGED << setupVars, semVars, built, ret, windowVars, framebufferResized,
                    current_frame, syncVars,
                    chainVars, imageIndex, recreations >>

\* the history of the swapchain after index has been acquired from it: its
\* images have been acquired in index order when every acquire so far
\* returned the index after the one before it, starting with 0 and wrapping
\* around at the image count
Acquired(index) ==
    LET inOrder == built.inOrder /\ index = built.nextInOrder
    IN [built EXCEPT !.inOrder = inOrder,
                     !.nextInOrder = IF inOrder
                                     THEN (index + 1) % Len(swapChainImages)
                                     ELSE 0]

\* main.cpp:588-598, acquire reported eSuccess or eSuboptimalKHR with an index;
\* the imageAvailable semaphore of the slot will be signaled
acquireImage ==
    /\ pc = "acquireNextImageKHR"
    /\ \E result \in {"eSuccess", "eSuboptimalKHR"}, index \in AcquirableIndices :
          /\ imageIndex' = index
          /\ iter' = [iter EXCEPT !.acq = result, !.acqIdx = index,
                                  !.acqChain = swapChain]
          /\ built' = Acquired(index)
    /\ imageAvailableSemaphores' =
          [imageAvailableSemaphores EXCEPT ![current_frame] = TRUE]
    /\ pc' = "resetFences"
    /\ UNCHANGED << setupVars, renderFinishedSemaphores, presentWaits, ret,
                    windowVars, framebufferResized, current_frame, syncVars,
                    chainVars, recreations >>

\* main.cpp:594-597, any other result of acquire
acquireFails ==
    /\ pc = "acquireNextImageKHR"
    /\ iter' = [iter EXCEPT !.acq = "eErrorDeviceLost", !.acqChain = swapChain]
    /\ Throw
    /\ UNCHANGED << setupVars, semVars, built, ret, windowVars, framebufferResized,
                    current_frame, syncVars,
                    chainVars, imageIndex, recreations >>

\* mutant: the framebuffer is picked by frame slot, not by image index
RenderTarget_BySlot(index) == swapChainFrameBuffers[current_frame + 1]

\* main.cpp:512, the framebuffer recordCommandBuffer begins the render pass on
RenderTarget(index) == swapChainFrameBuffers[index + 1]

\* main.cpp:600-603 with recordCommandBuffer (503-531): the fence of the slot
\* is reset, the command buffer of the slot is reset and re-recorded against
\* the framebuffer of imageIndex
resetFences_recordCommandBuffer ==
    /\ pc = "resetFences"
    /\ inFlightFences' = [inFlightFences EXCEPT ![current_frame] = FALSE]
    /\ commandBuffers' = [commandBuffers EXCEPT ![current_frame] =
                             [fb |-> RenderTarget(imageIndex)]]
    /\ iter' = [iter EXCEPT !.fenceReset = TRUE, !.recIdx = imageIndex,
                            !.recFb = RenderTarget(imageIndex)]
    /\ pc' = "submit"
    /\ UNCHANGED << setupVars, semVars, built, ret, windowVars, framebufferResized,
                    current_frame,
                    pending, chainVars, imageIndex, recreations >>

\* main.cpp:605-613, the submission was accepted; the fence of the slot is
\* signaled when it completes
submit ==
    /\ pc = "submit"
    /\ pending' = Append(pending, [slot |-> current_frame,
                                   fb   |-> commandBuffers[current_frame].fb])
    /\ iter' = [iter EXCEPT !.submitted = TRUE]
    /\ pc' = "presentKHR"
    /\ UNCHANGED << setupVars, semVars, built, ret, windowVars, framebufferResized,
                    current_frame,
                    inFlightFences, commandBuffers, chainVars, imageIndex, recreations >>

\* main.cpp:610-613, the submission failed
submitFails ==
    /\ pc = "submit"
    /\ Throw
    /\ UNCHANGED << setupVars, semVars, built, ret, windowVars, framebufferResized,
                    current_frame, syncVars,
                    chainVars, imageIndex, recreations, iter >>

\* mutant: a suboptimal acquire is remembered and forces the rebuild
PresentNeedsRecreate_Remembers(presentResult) ==
    \/ presentResult = "eErrorOutOfDateKHR"
    \/ presentResult = "eSuboptimalKHR"
    \/ framebufferResized
    \/ iter.acq = "eSuboptimalKHR"

\* mutant: the pending resize notification is not looked at
PresentNeedsRecreate_IgnoresResize(presentResult) ==
    \/ presentResult = "eErrorOutOfDateKHR"
    \/ presentResult = "eSuboptimalKHR"

\* main.cpp:621-622, the condition under which the present path recreates
PresentNeedsRecreate(presentResult) ==
    \/ presentResult = "eErrorOutOfDateKHR"
    \/ presentResult = "eSuboptimalKHR"
    \/ framebufferResized

\* main.cpp:618-627, present of imageIndex, waiting on the renderFinished
\* semaphore of the slot, and the branch on its result.  The semaphore wait
\* is queued whatever the result.
presentKHR ==
    /\ pc = "presentKHR"
    /\ \E presentResult \in PresentResults :
          /\ presentResult \in Recoverable => recreations < MaxRecreations
          /\ LET it == [iter EXCEPT !.pres = presentResult, !.presIdx = imageIndex,
                                    !.presChain = swapChain,
                                    !.resizedAtPresent = framebufferResized]
             IN IF PresentNeedsRecreate(presentResult)
                THEN recreateSwapChain("drawFrame_resetResized", it)
                ELSE /\ IF presentResult # "eSuccess"
                        THEN Throw
                        ELSE pc' = "drawFrame_advance"
                     /\ iter' = it
                     /\ UNCHANGED << ret, recreations >>
    /\ IF PresentWaitsAtOnce(renderFinishedSemaphores[current_frame])
       THEN /\ renderFinishedSemaphores' =
                  [renderFinishedSemaphores EXCEPT ![current_frame] = FALSE]
            /\ UNCHANGED presentWaits
       ELSE /\ presentWaits' = presentWaits \cup {current_frame}
            /\ UNCHANGED renderFinishedSemaphores
    /\ UNCHANGED << setupVars, imageAvailableSemaphores, built, windowVars, framebufferResized, current_frame, syncVars,
                    chainVars, imageIndex >>

\* main.cpp:624
drawFrame_resetResized ==
    /\ pc = "drawFrame_resetResized"
    /\ framebufferResized' = FALSE
    /\ pc' = "drawFrame_advance"
    /\ UNCHANGED << setupVars, semVars, built, ret, windowVars, current_frame, syncVars,
                    chainVars,
                    imageIndex, recreations, iter >>

\* mutant: the next slot is derived from the acquired image index
drawFrame_advance_ByImage ==
    /\ pc = "drawFrame_advance"
    /\ current_frame' = (imageIndex + 1) % MAX_FRAMES_IN_FLIGHT
    /\ iter' = [iter EXCEPT !.returned = TRUE]
    /\ imageIndex' = 0
    /\ pc' = "loop"
    /\ UNCHANGED << setupVars, semVars, built, ret, windowVars, framebufferResized,
                    syncVars, chainVars,
                    recreations >>

\* main.cpp:629
drawFrame_advance ==
    /\ pc = "drawFrame_advance"
    /\ current_frame' = (current_frame + 1) % MAX_FRAMES_IN_FLIGHT
    /\ iter' = [iter EXCEPT !.returned = TRUE]
    /\ imageIndex' = 0
    /\ pc' = "loop"
    /\ UNCHANGED << setupVars, semVars, built, ret, windowVars, framebufferResized,
                    syncVars, chainVars,
                    recreations >>

\* ------------------------------------------------------------ Application::recreateSwapChain

\* main.cpp:568-571, one pass of the loop body: width and height are read
\* (569), then the events are pumped (570), then the loop condition is tested
\* on the width and height that were read
recreate_waitEvents ==
    /\ pc = "recreate_waitEvents"
    /\ LET w == fbSize[1]
           h == fbSize[2]
       IN /\ PumpEvents
          /\ pc' = IF SizeIsZero(w, h) THEN "recreate_waitEvents" ELSE "recreate_waitIdle"
    /\ UNCHANGED << setupVars, semVars, ret, current_frame, syncVars, chainVars,
                    imageIndex,
                    recreations, iter >>

\* mutant: the swapchain is rebuilt without destroying the old one
recreate_waitIdle_SkipsCleanup ==
    /\ pc = "recreate_waitIdle"
    /\ DeviceIdle
    /\ pc' = "createSwapChain"
    /\ UNCHANGED << setupVars, semVars, built, ret, windowVars, framebufferResized,
                    current_frame, syncVars,
                    chainVars, imageIndex, recreations, iter >>

\* main.cpp:573
recreate_waitIdle ==
    /\ pc = "recreate_waitIdle"
    /\ DeviceIdle
    /\ pc' = "cleanup_framebuffers"
    /\ UNCHANGED << setupVars, semVars, built, ret, windowVars, framebufferResized,
                    current_frame, syncVars,
                    chainVars, imageIndex, recreations, iter >>

\* cleanupSwapChain, main.cpp:555-557.  A command buffer recorded against a
\* framebuffer that is destroyed becomes invalid: it holds no usable content
\* until it is recorded again.
cleanup_framebuffers ==
    /\ pc = "cleanup_framebuffers"
    /\ liveFramebuffers' = Without(liveFramebuffers, Range(swapChainFrameBuffers))
    /\ commandBuffers' = [s \in Slots |->
                             IF commandBuffers[s].fb \in Range(swapChainFrameBuffers)
                             THEN [fb |-> NullHandle]
                             ELSE commandBuffers[s]]
    /\ pc' = "cleanup_imageViews"
    /\ UNCHANGED << setupVars, semVars, built, ret, windowVars, framebufferResized,
                    current_frame,
                    inFlightFences, pending, swapChain, swapChainImages, swapChainFormat, swapChainExtent,
                    swapChainImageViews, swapChainFrameBuffers, liveSwapchains,
                    liveImageViews, nextHandle, imageIndex, recreations, iter >>

\* mutant: the image views are not destroyed
cleanup_imageViews_Leaks ==
    /\ pc = "cleanup_imageViews"
    /\ pc' = "cleanup_swapchain"
    /\ UNCHANGED << setupVars, semVars, built, ret, windowVars, framebufferResized,
                    current_frame, syncVars,
                    chainVars, imageIndex, recreations, iter >>

\* cleanupSwapChain, main.cpp:558-560
cleanup_imageViews ==
    /\ pc = "cleanup_imageViews"
    /\ liveImageViews' = Without(liveImageViews, Range(swapChainImageViews))
    /\ pc' = "cleanup_swapchain"
    /\ UNCHANGED << setupVars, semVars, built, ret, windowVars, framebufferResized,
                    current_frame, syncVars,
                    swapChain, swapChainImages, swapChainFormat, swapChainExtent,
                    swapChainImageViews, swapChainFrameBuffers, liveSwapchains,
                    liveFramebuffers, nextHandle, imageIndex, recreations, iter >>

\* cleanupSwapChain, main.cpp:561
cleanup_swapchain ==
    /\ pc = "cleanup_swapchain"
    /\ liveSwapchains' = Without(liveSwapchains, {swapChain})
    /\ pc' = "createSwapChain"
    /\ UNCHANGED << setupVars, semVars, built, ret, windowVars, framebufferResized,
                    current_frame, syncVars,
                    swapChain, swapChainImages, swapChainFormat, swapChainExtent,
                    swapChainImageViews, swapChainFrameBuffers, liveImageViews,
                    liveFramebuffers, nextHandle, imageIndex, recreations, iter >>

\* mutant: one image more than the swapchain that is replaced had is asked for
createSwapChain_OneMoreImage ==
    /\ pc = "createSwapChain"
    /\ LET info == [SwapchainCreateInfo(querySwapChainSupport(surface, fbSize), fbSize)
                       EXCEPT !.imageCount = Len(swapChainImages) + 1]
       IN /\ swapChain' = nextHandle
          /\ liveSwapchains' = Extend(liveSwapchains, nextHandle :> info)
          /\ swapChainImages' = ImagesOf(nextHandle, info.imageCount)
          /\ swapChainFormat' = info.format
          /\ swapChainExtent' = info.extent
    /\ built' = [size |-> fbSize, repeated |-> (recreations >= 2 /\ fbSize = built.size),
                 inOrder |-> TRUE, nextInOrder |-> 0,
                resizedSince |-> FALSE]
    /\ nextHandle' = nextHandle + 1
    /\ pc' = "createImageViews"
    /\ UNCHANGED << setupVars, semVars, ret, windowVars, framebufferResized,
                    current_frame, syncVars,
                    swapChainImageViews, swapChainFrameBuffers, liveImageViews,
                    liveFramebuffers, imageIndex, recreations, iter >>

\* createSwapChain, main.cpp:271-310, createSwapchainKHR succeeded
createSwapChain ==
    /\ pc = "createSwapChain"
    /\ LET info == SwapchainCreateInfo(querySwapChainSupport(surface, fbSize), fbSize)
       IN /\ swapChain' = nextHandle
          /\ liveSwapchains' = Extend(liveSwapchains, nextHandle :> info)
          /\ swapChainImages' = ImagesOf(nextHandle, info.imageCount)
          /\ swapChainFormat' = info.format
          /\ swapChainExtent' = info.extent
    /\ built' = [size |-> fbSize, repeated |-> (recreations >= 2 /\ fbSize = built.size),
                 inOrder |-> TRUE, nextInOrder |-> 0,
                resizedSince |-> FALSE]
    /\ nextHandle' = nextHandle + 1
    /\ pc' = "createImageViews"
    /\ UNCHANGED << setupVars, semVars, ret, windowVars, framebufferResized,
                    current_frame, syncVars,
                    swapChainImageViews, swapChainFrameBuffers, liveImageViews,
                    liveFramebuffers, imageIndex, recreations, iter >>

\* createSwapChain, main.cpp:302-305, createSwapchainKHR failed
createSwapChainFails ==
    /\ pc = "createSwapChain"
    /\ Throw
    /\ UNCHANGED << setupVars, semVars, built, ret, windowVars, framebufferResized,
                    current_frame, syncVars,
                    chainVars, imageIndex, recreations, iter >>

\* createImageViews, main.cpp:312-324
createImageViews ==
    /\ pc = "createImageViews"
    /\ swapChainImageViews' = NewHandles(nextHandle, Len(swapChainImages))
    /\ liveImageViews' = Extend(liveImageViews,
                                ImageViewObjects(swapChainImages, swapChainFormat, nextHandle))
    /\ nextHandle' = nextHandle + 1
    /\ pc' = "createFramebuffers"
    /\ UNCHANGED << setupVars, semVars, built, ret, windowVars, framebufferResized,
                    current_frame, syncVars,
                    swapChain, swapChainImages, swapChainFormat, swapChainExtent,
                    swapChainFrameBuffers, liveSwapchains, liveFramebuffers,
                    imageIndex, recreations, iter >>

\* mutant: the rebuild restarts the frame slots at slot 0
createFramebuffers_RestartsSlots ==
    /\ pc = "createFramebuffers"
    /\ swapChainFrameBuffers' = NewHandles(nextHandle, Len(swapChainImageViews))
    /\ liveFramebuffers' = Extend(liveFramebuffers,
                                  FramebufferObjects(swapChainImageViews, swapChainExtent, nextHandle))
    /\ nextHandle' = nextHandle + 1
    /\ iter' = [iter EXCEPT !.builtAfterPresent = (iter.pres # "none")]
    /\ pc' = ret
    /\ current_frame' = 0
    /\ UNCHANGED << setupVars, semVars, built, ret, windowVars, framebufferResized,
                    syncVars,
                    swapChain, swapChainImages, swapChainFormat, swapChainExtent,
                    swapChainImageViews, liveSwapchains, liveImageViews,
                    imageIndex, recreations >>

\* createFramebuffers, main.cpp:476-487, and the return of recreateSwapChain
createFramebuffers ==
    /\ pc = "createFramebuffers"
    /\ swapChainFrameBuffers' = NewHandles(nextHandle, Len(swapChainImageViews))
    /\ liveFramebuffers' = Extend(liveFramebuffers,
                                  FramebufferObjects(swapChainImageViews, swapChainExtent, nextHandle))
    /\ nextHandle' = nextHandle + 1
    /\ iter' = [iter EXCEPT !.builtAfterPresent = (iter.pres # "none")]
    /\ pc' = ret
    /\ UNCHANGED << setupVars, semVars, built, ret, windowVars, framebufferResized,
                    current_frame, syncVars,
                    swapChain, swapChainImages, swapChainFormat, swapChainExtent,
                    swapChainImageViews, liveSwapchains, liveImageViews,
                    imageIndex, recreations >>

\* ------------------------------------------------------------ specification

Next ==
    \/ loop
    \/ glfwPollEvents
    \/ loop_waitIdle
    \/ waitForFences
    \/ waitForFencesFails
    \/ acquireOutOfDate
    \/ drawFrame_return
    \/ acquireImage
    \/ acquireFails
    \/ resetFences_recordCommandBuffer
    \/ submit
    \/ submitFails
    \/ presentKHR
    \/ drawFrame_resetResized
    \/ drawFrame_advance
    \/ recreate_waitEvents
    \/ recreate_waitIdle
    \/ cleanup_framebuffers
    \/ cleanup_imageViews
    \/ cleanup_swapchain
    \/ createSwapChain
    \/ createSwapChainFails
    \/ createImageViews
    \/ createFramebuffers
    \/ GpuComplete

Spec == Init /\ [][Next]_vars

\* The frame loop on a surface whose presentation engine may execute the
\* semaphore waits late.
LatePresentInit == \E sf \in LatePresentSurfaces : InitWith(sf)

LatePresentNext ==
    \/ Next
    \/ PresentEngine

LatePresentSpec == LatePresentInit /\ [][LatePresentNext]_vars

\* The frame loop with a GPU that makes progress and a control thread that
\* goes on when its fence wait can return: every submitted command buffer
\* eventually completes, and waitForFences (main.cpp:582) returns once the
\* fence it blocks on is signaled and stays signaled.
FairSpec == Spec /\ WF_vars(GpuComplete) /\ WF_vars(waitForFences)

\* ------------------------------------------------------------ construction steps

\* The surface before anything was queried of it; what the devices report
\* for it is part of the devices enumerated.
UnqueriedSurface ==
    [definedExtent |-> FALSE, maxImageCount |-> 0, formats |-> << >>,
     presentModes |-> << >>, latePresents |-> FALSE]

\* The fields of the Application inside the constructor, before
\* createSwapChain: the handles are null, the vectors empty, current_frame
\* and framebufferResized have their initializers (main.cpp:68-90).
BeforeSwapChain ==
    /\ surface = UnqueriedSurface
    /\ ret = "none"
    /\ shouldClose = FALSE
    /\ framebufferResized = FALSE
    /\ current_frame = 0
    /\ inFlightFences = << >>
    /\ commandBuffers = << >>
    /\ pending = << >>
    /\ swapChain = NoSwapchain
    /\ swapChainImages = << >>
    /\ swapChainFormat = "eUndefined"
    /\ swapChainExtent = <<0, 0>>
    /\ swapChainImageViews = << >>
    /\ swapChainFrameBuffers = << >>
    /\ liveSwapchains = << >>
    /\ liveImageViews = << >>
    /\ liveFramebuffers = << >>
    /\ nextHandle = 1
    /\ imageIndex = 0
    /\ recreations = 0
    /\ iter = NewIter(0)
    /\ imageAvailableSemaphores = << >>
    /\ renderFinishedSemaphores = << >>
    /\ presentWaits = {}
    /\ built = [size |-> <<0, 0>>, repeated |-> FALSE,
                inOrder |-> TRUE, nextInOrder |-> 0,
                resizedSince |-> FALSE]

\* the constructor at the call of pickPhysicalDevice (main.cpp:97)
PickInit ==
    /\ BeforeSwapChain
    /\ pc = "pickPhysicalDevice"
    /\ fbSize = <<WIDTH, HEIGHT>>
    /\ liveObjects = {"window", "instance", "surface"}
    /\ enumerated \in DeviceLists
    /\ physicalDevice = NullPhysicalDevice
    /\ deviceIt = 1
    /\ swapChainSupport = NoSupport
    /\ createInfo = NoCreateInfo

\* mutant: a device already picked is kept
pickPhysicalDevice_next_FirstWins ==
    /\ pc = "pickPhysicalDevice"
    /\ deviceIt <= Len(enumerated)
    /\ physicalDevice' = IF isDeviceSuitable(enumerated[deviceIt])
                            /\ physicalDevice = NullPhysicalDevice
                         THEN deviceIt
                         ELSE physicalDevice
    /\ deviceIt' = deviceIt + 1
    /\ UNCHANGED << frameVars, pc, fbSize, liveObjects, enumerated,
                    swapChainSupport, createInfo >>

\* main.cpp:327-331, one pass of the loop over the devices
pickPhysicalDevice_next ==
    /\ pc = "pickPhysicalDevice"
    /\ deviceIt <= Len(enumerated)
    /\ physicalDevice' = IF isDeviceSuitable(enumerated[deviceIt])
                         THEN deviceIt
                         ELSE physicalDevice
    /\ deviceIt' = deviceIt + 1
    /\ UNCHANGED << frameVars, pc, fbSize, liveObjects, enumerated,
                    swapChainSupport, createInfo >>

\* main.cpp:333-335, no device was picked
pickPhysicalDevice_throws ==
    /\ pc = "pickPhysicalDevice"
    /\ deviceIt > Len(enumerated)
    /\ physicalDevice = NullPhysicalDevice
    /\ Throw
    /\ UNCHANGED << frameVars, fbSize, liveObjects, enumerated, physicalDevice,
                    deviceIt, swapChainSupport, createInfo >>

\* main.cpp:333-336, a device was picked: the constructor goes on
pickPhysicalDevice_returns ==
    /\ pc = "pickPhysicalDevice"
    /\ deviceIt > Len(enumerated)
    /\ physicalDevice # NullPhysicalDevice
    /\ pc' = "createLogicalDevice"
    /\ UNCHANGED << frameVars, fbSize, liveObjects, enumerated, physicalDevice,
                    deviceIt, swapChainSupport, createInfo >>

PickNext ==
    \/ pickPhysicalDevice_next
    \/ pickPhysicalDevice_throws
    \/ pickPhysicalDevice_returns

PickSpec == PickInit /\ [][PickNext]_vars

\* createSwapChain after main.cpp:272-273: the support details of the picked
\* device were queried, the window has some framebuffer size
SelectInit ==
    /\ BeforeSwapChain
    /\ pc = "createSwapChain_select"
    /\ fbSize \in WindowSizes
    /\ liveObjects = {"window", "instance", "surface", "device"}
    /\ enumerated = << SuitableDevice >>
    /\ physicalDevice = 1
    /\ deviceIt = 2
    /\ swapChainSupport \in SupportDetails
    /\ createInfo = NoCreateInfo

\* main.cpp:274-291, the selection of format, present mode, extent and image
\* count for the create info
createSwapChain_select ==
    /\ pc = "createSwapChain_select"
    /\ createInfo' = SwapchainCreateInfo(swapChainSupport, fbSize)
    /\ pc' = "createSwapchainKHR"
    /\ UNCHANGED << frameVars, fbSize, liveObjects, enumerated, physicalDevice,
                    deviceIt, swapChainSupport >>

SelectNext ==
    \/ createSwapChain_select

SelectSpec == SelectInit /\ [][SelectNext]_vars

\* ------------------------------------------------------------ properties

\* positions of the control thread in loop and drawFrame, outside
\* recreateSwapChain
FramePcs ==
    {"loop", "glfwPollEvents", "drawFrame", "acquireNextImageKHR", "resetFences",
     "submit", "presentKHR", "drawFrame_return",
     "drawFrame_resetResized", "drawFrame_advance"}

\* the submissions of slot s that are still executing
PendingOn(s) == {i \in 1 .. Len(pending) : pending[i].slot = s}

\* the iteration just returned to the main loop
IterationReturned == pc = "loop" /\ iter.returned

\* C1: in every reachable state the number of submissions whose fence has
\* not signaled is at most MAX_FRAMES_IN_FLIGHT.
C1_FrameBound ==
    Len(pending) <= MAX_FRAMES_IN_FLIGHT

\* both slots are in flight, after a recreation
C1_Witness ==
    /\ Len(pending) = MAX_FRAMES_IN_FLIGHT
    /\ recreations >= 1

\* C2: whenever drawFrame is about to reset the fence of the current slot, or
\* to reset and re-record (or submit) its command buffer, no earlier
\* submission of that slot is still executing, and the fence is signaled at
\* the moment it is reset.
C2_SlotReuse ==
    /\ pc = "resetFences" => inFlightFences[current_frame]
    /\ pc \in {"resetFences", "submit"}
          => PendingOn(current_frame) = {}

\* a slot used before is re-recorded while the other slot is still executing,
\* after a recreation
C2_Witness ==
    /\ pc = "resetFences"
    /\ commandBuffers[current_frame].fb # NullHandle
    /\ PendingOn(1 - current_frame) # {}
    /\ recreations >= 1

\* the swapchain image a live framebuffer renders to
ImageOfFramebuffer(fb) == liveImageViews[liveFramebuffers[fb].view].image

\* C3: in every iteration that reaches present, the index and swapchain
\* passed to present are those of the acquire of that iteration, the command
\* buffer of the slot was recorded against the framebuffer of that image, and
\* no recreation ran between the acquire and the present.
C3_IndexConsistency ==
    /\ pc = "presentKHR" =>
          /\ imageIndex = iter.acqIdx
          /\ swapChain = iter.acqChain
          /\ iter.recreateCalls = 0
          /\ commandBuffers[current_frame].fb \in DOMAIN liveFramebuffers
          /\ ImageOfFramebuffer(commandBuffers[current_frame].fb)
                = <<iter.acqChain, iter.acqIdx>>
    /\ iter.pres # "none" =>
          /\ iter.presIdx = iter.acqIdx
          /\ iter.presChain = iter.acqChain
          /\ iter.recFb # NullHandle

\* an image of a rebuilt swapchain whose index differs from the frame slot
\* was presented
C3_Witness ==
    /\ iter.pres # "none"
    /\ iter.presIdx # iter.cf0
    /\ iter.presChain > 1

\* C4: when acquire reports out-of-date, the iteration invokes the
\* recreation and returns with the fence of the slot still signaled (never
\* reset), current_frame unchanged, and nothing recorded, submitted or
\* presented.
C4_StaleAcquire ==
    iter.acq = "eErrorOutOfDateKHR" =>
        /\ ~iter.fenceReset
        /\ iter.recFb = NullHandle
        /\ ~iter.submitted
        /\ iter.pres = "none"
        /\ current_frame = iter.cf0
        /\ PendingOn(current_frame) = {}
        /\ pc # "terminated" => inFlightFences[current_frame]
        /\ pc \in FramePcs =>
              /\ pc \in {"drawFrame_return", "loop"}
              /\ iter.returned <=> pc = "loop"
              /\ iter.recreateCalls = 1
              /\ swapChain # iter.acqChain
              /\ iter.acqChain \notin DOMAIN liveSwapchains

\* an iteration aborted by a stale acquire returned while the other slot was
\* still in flight
C4_Witness ==
    /\ IterationReturned
    /\ iter.acq = "eErrorOutOfDateKHR"
    /\ iter.cf0 = 1

\* C5 as stated: after a suboptimal acquire the swapchain is rebuilt after
\* presenting in the same iteration, whatever present returns and whether or
\* not a resize is pending.
C5_SuboptimalAlwaysRebuilds ==
    (IterationReturned /\ iter.acq = "eSuboptimalKHR") => iter.builtAfterPresent

\* C5 amended: after a suboptimal acquire the iteration records, submits and
\* presents the acquired image; the swapchain is rebuilt after presenting in
\* that iteration exactly when present reports out-of-date or suboptimal or a
\* resize notification is pending at that moment.
C5_SuboptimalProceeds ==
    /\ (iter.acq = "eSuboptimalKHR" /\ pc \in FramePcs) =>
          /\ pc \notin {"drawFrame_return", "acquireNextImageKHR"}
          /\ pc \in {"drawFrame_resetResized", "drawFrame_advance", "loop"} =>
                /\ iter.fenceReset
                /\ iter.recFb # NullHandle
                /\ iter.submitted
                /\ iter.presIdx = iter.acqIdx
    /\ (IterationReturned /\ iter.acq = "eSuboptimalKHR") =>
          (iter.builtAfterPresent <=>
              (iter.pres \in Recoverable \/ iter.resizedAtPresent))

\* a suboptimal acquire whose iteration presented and returned without a
\* rebuild
C5_Witness ==
    /\ IterationReturned
    /\ iter.acq = "eSuboptimalKHR"
    /\ iter.pres = "eSuccess"
    /\ ~iter.builtAfterPresent

\* C6: in every iteration that reaches present and returns, if present
\* reported out-of-date or suboptimal, or framebufferResized was set, the
\* swapchain was recreated after the present and framebufferResized is false
\* when the iteration ends; otherwise (present succeeded, no resize pending)
\* no recreation happened.
C6_PresentSideRecreation ==
    (IterationReturned /\ iter.pres # "none") =>
        IF iter.pres \in Recoverable \/ iter.resizedAtPresent
        THEN /\ iter.builtAfterPresent
             /\ iter.recreateCalls = 1
             /\ swapChain # iter.presChain
             /\ ~framebufferResized
        ELSE /\ iter.pres = "eSuccess"
             /\ ~iter.builtAfterPresent
             /\ iter.recreateCalls = 0
             /\ swapChain = iter.presChain
             /\ ~framebufferResized

\* a successful present with a pending resize notification led to a rebuild
C6_Witness ==
    /\ IterationReturned
    /\ iter.pres = "eSuccess"
    /\ iter.resizedAtPresent
    /\ iter.builtAfterPresent

\* C7 as stated: every iteration that returns to the main loop has advanced
\* the frame slot by one modulo N, whatever acquire and present returned.
C7_AlwaysAdvances ==
    IterationReturned =>
        current_frame = (iter.cf0 + 1) % MAX_FRAMES_IN_FLIGHT

\* C7 amended: an iteration that returns after reaching present has advanced
\* the frame slot by one modulo N whatever present returned and whichever
\* image was acquired; an iteration aborted by an out-of-date acquire returns
\* with the frame slot unchanged.
C7_SlotAdvance ==
    IterationReturned =>
        current_frame = IF iter.acq = "eErrorOutOfDateKHR"
                        THEN iter.cf0
                        ELSE (iter.cf0 + 1) % MAX_FRAMES_IN_FLIGHT

\* an iteration that acquired the third image and recreated after present
\* advanced from slot 1 to slot 0
C7_Witness ==
    /\ IterationReturned
    /\ iter.acqIdx = 2
    /\ iter.builtAfterPresent
    /\ iter.cf0 = 1
    /\ current_frame = 0

\* C8 as stated: no swapchain is ever built with an extent of zero width or
\* zero height.
C8_NoZeroExtent ==
    /\ \A sc \in DOMAIN liveSwapchains :
          liveSwapchains[sc].extent[1] # 0 /\ liveSwapchains[sc].extent[2] # 0
    /\ pc \in FramePcs => (swapChainExtent[1] # 0 /\ swapChainExtent[2] # 0)

\* C9: every destruction of framebuffers, image views or the swapchain in a
\* recreation happens with no submission outstanding, and no executing
\* command buffer references a destroyed framebuffer, image view or
\* swapchain.
C9_DrainBeforeTeardown ==
    /\ pc \in {"cleanup_framebuffers", "cleanup_imageViews", "cleanup_swapchain"}
          => pending = << >>
    /\ \A i \in 1 .. Len(pending) :
          /\ pending[i].fb \in DOMAIN liveFramebuffers
          /\ liveFramebuffers[pending[i].fb].view \in DOMAIN liveImageViews
          /\ ImageOfFramebuffer(pending[i].fb)[1] \in DOMAIN liveSwapchains

\* the teardown is reached in an iteration that submitted work
C9_Witness ==
    /\ pc = "cleanup_framebuffers"
    /\ iter.submitted
    /\ pending = << >>

\* the swapchain, its image views and its framebuffers form one unit
UnitConsistent ==
    /\ DOMAIN liveSwapchains = {swapChain}
    /\ swapChainFormat = liveSwapchains[swapChain].format
    /\ swapChainExtent = liveSwapchains[swapChain].extent
    /\ swapChainImages = ImagesOf(swapChain, liveSwapchains[swapChain].imageCount)
    /\ Len(swapChainImageViews) = Len(swapChainImages)
    /\ Len(swapChainFrameBuffers) = Len(swapChainImages)
    /\ DOMAIN liveImageViews = Range(swapChainImageViews)
    /\ DOMAIN liveFramebuffers = Range(swapChainFrameBuffers)
    /\ \A i \in 1 .. Len(swapChainImages) :
          /\ liveImageViews[swapChainImageViews[i]]
                = [image |-> swapChainImages[i], format |-> swapChainFormat]
          /\ liveFramebuffers[swapChainFrameBuffers[i]]
                = [view |-> swapChainImageViews[i], extent |-> swapChainExtent]
    /\ \A i, j \in 1 .. Len(swapChainImages) :
          i # j => /\ swapChainImageViews[i] # swapChainImageViews[j]
                   /\ swapChainFrameBuffers[i] # swapChainFrameBuffers[j]

\* C10: at the start of every drawFrame iteration, and at every position of
\* the frame loop outside recreateSwapChain, there is exactly one live image
\* view and one live framebuffer per image of the current swapchain, built
\* for the current swapchain, format and extent, and nothing of a destroyed
\* swapchain is left.
C10_SwapchainUnit ==
    pc \in FramePcs => UnitConsistent

\* an iteration starts after two recreations, the last with another extent
C10_Witness ==
    /\ pc = "drawFrame"
    /\ recreations = 2
    /\ swapChainExtent # <<WIDTH, HEIGHT>>
    /\ Len(swapChainImages) = 3

\* C11: when a recreation builds the swapchain for the framebuffer size the
\* previous recreation built it for (the surface reports the same
\* capabilities, formats and present modes), the new swapchain has the
\* extent, the format and the number of images of the one it replaces.
C11_RecreationIdempotence ==
    [][(createSwapChain /\ recreations >= 2 /\ fbSize = built.size) =>
          /\ swapChainExtent' = swapChainExtent
          /\ swapChainFormat' = swapChainFormat
          /\ Len(swapChainImages') = Len(swapChainImages)
          /\ swapChain' # swapChain]_vars

\* the second of two recreations has built a swapchain for the size the
\* first one built for, a size other than the initial one
C11_Witness ==
    /\ pc = "createImageViews"
    /\ recreations = 2
    /\ built.repeated
    /\ built.size = <<1, 1>>
    /\ swapChainExtent = <<1, 1>>

\* C12 as stated: when main returns after the window was closed, no
\* submission is outstanding and every object the program created has been
\* destroyed: the swapchain, its image views and framebuffers, the sync
\* objects, command pool, pipeline, pipeline layout, render pass, device,
\* surface and instance.
C12_TeardownAtExit ==
    pc = "exited" =>
        /\ pending = << >>
        /\ presentWaits = {}
        /\ DOMAIN liveFramebuffers = {}
        /\ DOMAIN liveImageViews = {}
        /\ DOMAIN liveSwapchains = {}
        /\ liveObjects = {}

\* the result acquire or present returned in this step, "none" if the step is
\* not the return of that call
AcquireReturned == IF iter'.acq # iter.acq THEN iter'.acq ELSE "none"
PresentReturned == IF iter'.pres # iter.pres THEN iter'.pres ELSE "none"

\* the positions at which drawFrame, or the recreation it calls, throws
ThrowSites ==
    {"drawFrame", "acquireNextImageKHR", "submit", "presentKHR", "createSwapChain"}

\* C13 as stated: the step in which acquire or present returns out-of-date or
\* suboptimal never terminates the process, and the iteration that saw such a
\* result returns to the loop with a complete swapchain unit, rebuilt where
\* the result asks for it; any other non-success result of acquire or
\* present terminates in that step, as does a failed fence wait or
\* submission; the process terminates at no other place of the frame than
\* these calls and the swapchain creation; and once terminated nothing
\* changes any more: nothing is recorded, submitted, presented or retried.
C13_RecoverableVsFatal ==
    /\ [](IterationReturned =>
             /\ UnitConsistent
             /\ iter.acq = "eErrorOutOfDateKHR" => swapChain # iter.acqChain
             /\ iter.pres \in Recoverable => swapChain # iter.presChain)
    /\ [][/\ AcquireReturned \in Recoverable => pc' # "terminated"
          /\ PresentReturned \in Recoverable => pc' # "terminated"
          /\ AcquireReturned \notin (Recoverable \cup {"none", "eSuccess"})
                => pc' = "terminated"
          /\ PresentReturned \notin (Recoverable \cup {"none", "eSuccess"})
                => pc' = "terminated"
          /\ (pc' = "terminated" /\ pc # "terminated") => pc \in ThrowSites
          /\ (pc' = "terminated" /\ pc \in {"drawFrame", "submit"})
                => (waitForFencesFails \/ submitFails)
          /\ pc = "terminated" => vars' = vars]_vars

\* the devices of the list that meet the four requirements: a queue family
\* with graphics, a queue family that presents to the surface, every required
\* extension, at least one surface format and one present mode
Qualifies(device) ==
    /\ \E i \in 1 .. Len(device.queueFamilies) : device.queueFamilies[i].graphics
    /\ \E i \in 1 .. Len(device.queueFamilies) : device.queueFamilies[i].present
    /\ deviceExtensions \subseteq device.extensions
    /\ device.formats # << >>
    /\ device.presentModes # << >>

QualifyingPositions == {i \in 1 .. Len(enumerated) : Qualifies(enumerated[i])}

\* C14: when pickPhysicalDevice returns, the device picked qualifies and is
\* the last qualifying one of the enumeration; pickPhysicalDevice throws
\* exactly when no enumerated device qualifies.
C14_DeviceSelection ==
    /\ pc = "createLogicalDevice" =>
          /\ physicalDevice \in QualifyingPositions
          /\ \A i \in QualifyingPositions : i <= physicalDevice
    /\ pc = "terminated" => QualifyingPositions = {}
    /\ (pc = "pickPhysicalDevice" /\ deviceIt > Len(enumerated)) =>
          (physicalDevice = NullPhysicalDevice <=> QualifyingPositions = {})

\* of [A unsuitable, B suitable, C suitable] with B and C different kinds of
\* device, C was picked
C14_Witness ==
    /\ pc = "createLogicalDevice"
    /\ Len(enumerated) = 3
    /\ QualifyingPositions = {2, 3}
    /\ enumerated[2] # enumerated[3]
    /\ physicalDevice = 3

\* C15: the surface format selected is (eB8G8R8A8Srgb, eSrgbNonlinear) if
\* some entry of the list has both this format and this color space, at
\* whatever position, and the first entry of the list otherwise.
C15_FormatSelection ==
    pc = "createSwapchainKHR" =>
        LET formats == swapChainSupport.formats
            selected == << createInfo.format, createInfo.colorSpace >>
        IN IF \E i \in 1 .. Len(formats) :
                  formats[i][1] = "eB8G8R8A8Srgb" /\ formats[i][2] = "eSrgbNonlinear"
           THEN selected = <<"eB8G8R8A8Srgb", "eSrgbNonlinear">>
           ELSE selected = formats[1]

\* the preferred format was selected from the second position, behind an
\* entry with the same pixel format and another color space
C15_Witness ==
    /\ pc = "createSwapchainKHR"
    /\ swapChainSupport.formats =
          << <<"eB8G8R8A8Srgb", "eExtendedSrgbLinearEXT">>, PreferredFormat >>
    /\ createInfo.format = "eB8G8R8A8Srgb"
    /\ createInfo.colorSpace = "eSrgbNonlinear"

\* C16: the present mode selected is eMailbox if the list contains eMailbox
\* and eFifo otherwise, whether or not the list contains eFifo.
C16_PresentModeSelection ==
    pc = "createSwapchainKHR" =>
        createInfo.presentMode =
            IF \E i \in 1 .. Len(swapChainSupport.presentModes) :
                  swapChainSupport.presentModes[i] = "eMailbox"
            THEN "eMailbox"
            ELSE "eFifo"

\* mailbox was selected from behind fifo
C16_Witness ==
    /\ pc = "createSwapchainKHR"
    /\ swapChainSupport.presentModes = <<"eFifo", "eMailbox">>
    /\ createInfo.presentMode = "eMailbox"

\* v lies in lo .. hi, and is the member of lo .. hi nearest to x
Clamped(v, x, lo, hi) ==
    /\ lo <= v /\ v <= hi
    /\ (lo <= x /\ x <= hi) => v = x
    /\ x < lo => v = lo
    /\ x > hi => v = hi

\* C17: a concrete current extent is selected unchanged; with the undefined
\* extent the selected width and height are the width and height of the
\* framebuffer, each clamped into [minImageExtent, maxImageExtent], so they
\* lie within these bounds.
C17_ExtentSelection ==
    pc = "createSwapchainKHR" =>
        LET capabilities == swapChainSupport.capabilities
        IN IF capabilities.currentExtent # <<UINT32_MAX, UINT32_MAX>>
           THEN createInfo.extent = capabilities.currentExtent
           ELSE \A k \in 1 .. 2 :
                   Clamped(createInfo.extent[k], fbSize[k],
                           capabilities.minImageExtent[k],
                           capabilities.maxImageExtent[k])

\* a framebuffer of (1,1) with minImageExtent (64,64) gave (64,64)
C17_Witness ==
    /\ pc = "createSwapchainKHR"
    /\ swapChainSupport.capabilities.currentExtent = <<UINT32_MAX, UINT32_MAX>>
    /\ swapChainSupport.capabilities.minImageExtent = <<64, 64>>
    /\ swapChainSupport.capabilities.maxImageExtent = <<4096, 4096>>
    /\ fbSize = <<1, 1>>
    /\ createInfo.extent = <<64, 64>>

\* C18 as stated: whenever the imageAvailable semaphore of the current slot
\* is handed to acquire, no signal on it is pending or unconsumed, and
\* whenever the renderFinished semaphore of the current slot is handed to a
\* new submission to signal, no earlier present still has its wait on that
\* semaphore outstanding.
C18_SemaphoresFree ==
    /\ pc = "acquireNextImageKHR" => ~imageAvailableSemaphores[current_frame]
    /\ pc = "submit" => current_frame \notin presentWaits

\* the positions of the control thread inside recreateSwapChain
RecreatePcs ==
    {"recreate_waitEvents", "recreate_waitIdle", "cleanup_framebuffers",
     "cleanup_imageViews", "cleanup_swapchain", "createSwapChain",
     "createImageViews", "createFramebuffers"}

\* a step of recreateSwapChain
RecreateStep ==
    \/ recreate_waitEvents
    \/ recreate_waitIdle
    \/ cleanup_framebuffers
    \/ cleanup_imageViews
    \/ cleanup_swapchain
    \/ createSwapChain
    \/ createSwapChainFails
    \/ createImageViews
    \/ createFramebuffers

C20_WaitAfterTeardown ==
    pc = "recreate_waitEvents" =>
        /\ pending = << >>
        /\ DOMAIN liveFramebuffers = {}
        /\ DOMAIN liveImageViews = {}
        /\ DOMAIN liveSwapchains = {}

\* the order of the positions inside recreateSwapChain
RecreateOrder ==
    << "recreate_waitEvents", "recreate_waitIdle", "cleanup_framebuffers",
       "cleanup_imageViews", "cleanup_swapchain", "createSwapChain",
       "createImageViews", "createFramebuffers" >>

PositionOf(p) == CHOOSE k \in 1 .. Len(RecreateOrder) : RecreateOrder[k] = p

\* C20 amended: every recreation performs its steps in this order: (1) while
\* the framebuffer size it read has a zero side, read the size again and
\* wait for events, with the swapchain unit intact and work possibly in
\* flight; (2) wait until the device is idle; (3) destroy all framebuffers;
\* (4) destroy all image views; (5) destroy the swapchain; (6) select and
\* create the swapchain, then its image views, then its framebuffers.
C20_RecreationOrder ==
    /\ [][(pc \in RecreatePcs /\ pc' # pc) =>
             \/ pc' = "terminated" /\ pc = "createSwapChain"
             \/ pc' = ret /\ pc = "createFramebuffers"
                   /\ ret \in {"drawFrame_return", "drawFrame_resetResized"}
             \/ pc' \in RecreatePcs /\ PositionOf(pc') = PositionOf(pc) + 1]_vars
    /\ [][(pc \notin RecreatePcs /\ pc' \in RecreatePcs) =>
             pc' \in {"recreate_waitEvents", "recreate_waitIdle"}]_vars
    /\ [](pc \in {"recreate_waitEvents", "recreate_waitIdle", "cleanup_framebuffers"}
             => UnitConsistent)
    /\ []((pc \in RecreatePcs /\ PositionOf(pc) >= PositionOf("cleanup_framebuffers"))
             => pending = << >>)
    /\ [](pc = "cleanup_imageViews" =>
             /\ DOMAIN liveFramebuffers = {}
             /\ DOMAIN liveImageViews = Range(swapChainImageViews)
             /\ DOMAIN liveSwapchains = {swapChain})
    /\ [](pc = "cleanup_swapchain" =>
             /\ DOMAIN liveFramebuffers = {}
             /\ DOMAIN liveImageViews = {}
             /\ DOMAIN liveSwapchains = {swapChain})
    /\ [](pc = "createSwapChain" =>
             /\ DOMAIN liveFramebuffers = {}
             /\ DOMAIN liveImageViews = {}
             /\ DOMAIN liveSwapchains = {})
    /\ [](pc = "createImageViews" =>
             /\ DOMAIN liveFramebuffers = {}
             /\ DOMAIN liveImageViews = {}
             /\ DOMAIN liveSwapchains = {swapChain}
             /\ liveSwapchains[swapChain].extent = swapChainExtent)
    /\ [](pc = "createFramebuffers" =>
             /\ DOMAIN liveFramebuffers = {}
             /\ DOMAIN liveImageViews = Range(swapChainImageViews)
             /\ DOMAIN liveSwapchains = {swapChain})

\* the recreation waits for a nonzero framebuffer size while the work of both
\* slots is in flight and nothing of the swapchain unit is destroyed
C20_Witness ==
    /\ pc = "recreate_waitEvents"
    /\ Len(pending) = MAX_FRAMES_IN_FLIGHT
    /\ UnitConsistent
    /\ iter.pres # "none"

\* ------------------------------------------------------------ C21

\* the swapchain image a submitted command buffer renders to
TargetImage(submission) == ImageOfFramebuffer(submission.fb)

\* the submissions still executing that render to the image the command
\* buffer of the current slot has been recorded against
PendingOnSameImage ==
    {i \in 1 .. Len(pending) :
        TargetImage(pending[i]) = ImageOfFramebuffer(commandBuffers[current_frame].fb)}

\* C21: the fence of a slot keeps drawFrame from submitting the slot's command
\* buffer while an earlier submission of the same slot executes, and nothing
\* else is looked at: whenever drawFrame submits a command buffer recorded
\* against an image that a submission still executing renders to, that
\* submission belongs to the other slot and the images of the swapchain have
\* not been acquired in index order (with two or three images acquired in
\* index order the hazard does not occur).
C21_PerImageHazard ==
    [][(submit /\ PendingOnSameImage # {}) =>
          /\ \A i \in PendingOnSameImage : pending[i].slot # current_frame
          /\ ~built.inOrder]_vars

\* the hazard of C21: on a swapchain of three images drawFrame has recorded
\* and submitted the command buffer of the current slot against an image
\* while the submission of the other slot that renders to the same image is
\* still executing, its fence unsignaled
C21_Witness ==
    /\ pc = "presentKHR"
    /\ Len(swapChainImages) = 3
    /\ \E i, j \in 1 .. Len(pending) :
          /\ i < j
          /\ pending[j].slot = current_frame
          /\ pending[i].slot # current_frame
          /\ TargetImage(pending[i]) = TargetImage(pending[j])
          /\ pending[j].fb = iter.recFb
          /\ ~inFlightFences[pending[i].slot]
    /\ iter.submitted

\* ------------------------------------------------------------ C22

\* the fence wait at the start of the iteration has returned
FenceWaitOver == pc # "drawFrame"

\* C22: at the start of every drawFrame iteration the fence of the current
\* slot is signaled or a submission of the slot is still executing, and,
\* with a GPU that completes every submission, the fence wait eventually
\* returns.
C22_NoFenceDeadlock ==
    /\ [](pc = "drawFrame" =>
            (inFlightFences[current_frame] \/ PendingOn(current_frame) # {}))
    /\ (pc = "drawFrame" ~> FenceWaitOver)

\* after a recreation drawFrame is blocked in the fence wait of a slot whose
\* fence is unsignaled, the submission of the slot still executing
C22_Witness ==
    /\ pc = "drawFrame"
    /\ recreations >= 1
    /\ ~inFlightFences[current_frame]
    /\ PendingOn(current_frame) # {}

\* ------------------------------------------------------------ C23

\* the positions of the control thread inside an event pump: glfwPollEvents
\* of the main loop (main.cpp:111) and glfwWaitEvents of the minimized-window
\* wait (570)
EventPumps == {"glfwPollEvents", "recreate_waitEvents"}

\* C23: framebufferResized becomes true only in a step of an event pump and
\* becomes false only in the present path right after recreateSwapChain has
\* returned; when it becomes false a swapchain has been created in this
\* iteration after the present and no resize has been notified since it was
\* created; an iteration that took the stale-acquire path never resets it;
\* and a resize notified since the current swapchain was created always has
\* the flag still set.
C23_NoLostResize ==
    /\ [][/\ (~framebufferResized /\ framebufferResized') => pc \in EventPumps
          /\ (framebufferResized /\ ~framebufferResized') =>
                /\ pc = "drawFrame_resetResized"
                /\ iter.pres # "none"
                /\ iter.recreateCalls >= 1
                /\ iter.builtAfterPresent
                /\ ~built.resizedSince
          /\ iter.acq = "eErrorOutOfDateKHR" =>
                (framebufferResized => framebufferResized')]_vars
    /\ [](built.resizedSince => framebufferResized)

\* the present path has reset a flag that was set when present returned,
\* after the recreation has built a swapchain for the size the window has
\* now, a size other than the initial one
C23_Witness ==
    /\ pc = "drawFrame_advance"
    /\ iter.resizedAtPresent
    /\ iter.pres = "eSuccess"
    /\ ~framebufferResized
    /\ iter.builtAfterPresent
    /\ built.size # <<WIDTH, HEIGHT>>
    /\ fbSize = built.size


====
